---- MODULE Spec2Model ----
(***************************************************************************)
(* Model of the Budget ledger of src/Untitled-1.py: the Transaction record *)
(* and its (de)serialisation, the Budget object with its two in-memory     *)
(* lists, the JSON store file it rewrites on every addition, and the       *)
(* calendar date the records are stamped with.                             *)
(*                                                                         *)
(* Texts that the program parses or formats character by character (the    *)
(* amount argument, str() of a Decimal, repr() of a float) are sequences   *)
(* of one-character strings.  Texts the program only stores, compares or   *)
(* tests for emptiness (description, category) are TLA+ strings.           *)
(***************************************************************************)
EXTENDS Integers, Sequences, FiniteSets, TLC

(***************************************************************************)
(* Bounds of the model.                                                    *)
(***************************************************************************)
\* most records (incomes plus expenses) the ledger is grown to
MaxRecords == 2
\* most successful writes a concurrent writer's run is followed for
MaxAdds == 1

(***************************************************************************)
(* Library constants the program inherits.                                 *)
(***************************************************************************)
\* decimal.getcontext().prec : significant digits kept by Decimal arithmetic
Prec == 28
\* a positive decimal whose adjusted exponent is at most this becomes 0.0
\* as a float (below half the smallest subnormal, about 2.47E-324)
FloatZeroExp == -325
\* a decimal whose adjusted exponent is at least this is a normal float
FloatNormalExp == -307
\* Decimal.__str__ uses plain notation while the digits left of the point
\* number more than this
StrPlainLeft == -6

(***************************************************************************)
(* Small arithmetic helpers.                                               *)
(***************************************************************************)
RECURSIVE Pow10(_)
Pow10(n) == IF n <= 0 THEN 1 ELSE 10 * Pow10(n - 1)

RECURSIVE NumDigits(_)
NumDigits(n) == IF n < 10 THEN 1 ELSE 1 + NumDigits(n \div 10)

RECURSIVE StripZeros(_, _)
\* drop the trailing zero digits of a coefficient: <<coef, exp>>
StripZeros(c, e) ==
    IF c # 0 /\ c % 10 = 0 THEN StripZeros(c \div 10, e + 1) ELSE <<c, e>>

Min2(a, b) == IF a <= b THEN a ELSE b

Abs(n) == IF n < 0 THEN -n ELSE n

(***************************************************************************)
(* Characters and digit strings.                                           *)
(***************************************************************************)
DigitChars == <<"0", "1", "2", "3", "4", "5", "6", "7", "8", "9">>

Digits == {DigitChars[k] : k \in 1..10}

IsDigit(c) == c \in Digits

DigitIndex == [c \in Digits |-> CHOOSE k \in 1..10 : DigitChars[k] = c]

DigitVal(c) == DigitIndex[c] - 1

RECURSIVE NatStr(_)
\* the decimal digits of a natural number
NatStr(n) ==
    IF n < 10 THEN <<DigitChars[n + 1]>>
    ELSE NatStr(n \div 10) \o <<DigitChars[(n % 10) + 1]>>

RECURSIVE Zeros(_)
Zeros(n) == IF n <= 0 THEN << >> ELSE <<"0">> \o Zeros(n - 1)

RECURSIVE ScanDigits(_, _)
\* index of the first character at or after i that is not a digit
ScanDigits(s, i) ==
    IF i <= Len(s) /\ IsDigit(s[i]) THEN ScanDigits(s, i + 1) ELSE i

RECURSIVE DigitsValue(_, _, _, _)
\* value of the digits s[i..j-1], continuing from acc
DigitsValue(s, i, j, acc) ==
    IF i >= j THEN acc ELSE DigitsValue(s, i + 1, j, acc * 10 + DigitVal(s[i]))

(***************************************************************************)
(* decimal.Decimal: sign, coefficient and exponent.  Comparison is by      *)
(* numeric value, as Decimal.__eq__ and Decimal.__le__ are.                *)
(***************************************************************************)
Dec(sg, c, e) == [sign |-> sg, coef |-> c, exp |-> e]

DecZero == Dec(0, 0, 0)

NotANumber == [nan |-> TRUE]

\* adjusted exponent: the exponent of the leading digit
Adjusted(d) == d.exp + NumDigits(d.coef) - 1

Signed(d) == IF d.sign = 1 THEN 0 - d.coef ELSE d.coef

\* Decimal.__bool__
DecTruthy(d) == d.coef # 0

\* d <= 0
DecLeZero(d) == d.coef = 0 \/ d.sign = 1

\* d > 0
DecPositive(d) == ~DecLeZero(d)

\* a == b
DecEq(a, b) ==
    LET na == StripZeros(a.coef, a.exp)
        nb == StripZeros(b.coef, b.exp)
    IN  IF na[1] = 0 \/ nb[1] = 0 THEN na[1] = nb[1]
        ELSE a.sign = b.sign /\ na = nb

FromSigned(v, e) == Dec(IF v < 0 THEN 1 ELSE 0, Abs(v), e)

\* Decimal.__add__ under the default context.  When the operand with the
\* smaller exponent lies wholly below the precision of the other one it is
\* replaced by an epsilon and rounded away (_normalize in the decimal
\* module): the result has the value of the larger operand.  Otherwise the
\* coefficients are aligned on the smaller exponent and added exactly.
DecAdd(a, b) ==
    IF a.coef = 0 /\ b.coef = 0 THEN Dec(0, 0, Min2(a.exp, b.exp))
    ELSE IF a.coef = 0 /\ a.exp >= b.exp THEN b
    ELSE IF b.coef = 0 /\ b.exp >= a.exp THEN a
    ELSE
      LET tmp   == IF a.exp >= b.exp THEN a ELSE b
          other == IF a.exp >= b.exp THEN b ELSE a
          cut   == tmp.exp + Min2(-1, NumDigits(tmp.coef) - Prec - 2)
      IN  IF tmp.coef # 0 /\ Adjusted(other) < cut THEN tmp
          ELSE FromSigned(Signed(tmp) * Pow10(tmp.exp - other.exp)
                            + Signed(other), other.exp)

DecNeg(a) == Dec(IF a.coef = 0 THEN a.sign ELSE 1 - a.sign, a.coef, a.exp)

\* a - b
DecSub(a, b) == DecAdd(a, DecNeg(b))

(***************************************************************************)
(* Decimal(text): the constructor's parse of a numeric string              *)
(* [sign] digits [. digits] [e [sign] digits].  Anything else raises       *)
(* decimal.InvalidOperation, returned here as NotANumber.  (The literals   *)
(* NaN and Infinity are not among the texts the model draws.)              *)
(***************************************************************************)
ParseDecimal(s) ==
    LET n        == Len(s)
        hasSign  == n >= 1 /\ s[1] \in {"-", "+"}
        sg       == IF n >= 1 /\ s[1] = "-" THEN 1 ELSE 0
        i        == IF hasSign THEN 2 ELSE 1
        j        == ScanDigits(s, i)
        hasPoint == j <= n /\ s[j] = "."
        f        == IF hasPoint THEN j + 1 ELSE j
        k        == IF hasPoint THEN ScanDigits(s, f) ELSE j
        nInt     == j - i
        nFrac    == k - f
        hasExp   == k <= n /\ s[k] \in {"e", "E"}
        es       == k + 1
        expSign  == hasExp /\ es <= n /\ s[es] \in {"-", "+"}
        expNeg   == hasExp /\ es <= n /\ s[es] = "-"
        ed       == IF expSign THEN es + 1 ELSE es
        ee       == ScanDigits(s, ed)
        ok       == /\ nInt + nFrac >= 1
                    /\ IF hasExp THEN ee > ed /\ ee = n + 1 ELSE k = n + 1
        coef     == DigitsValue(s, f, k, DigitsValue(s, i, j, 0))
        ex       == IF hasExp
                    THEN (IF expNeg THEN -1 ELSE 1) * DigitsValue(s, ed, ee, 0)
                    ELSE 0
    IN  IF ok THEN Dec(sg, coef, ex - nFrac) ELSE NotANumber

(***************************************************************************)
(* str(Decimal): plain notation when the exponent is not positive and the  *)
(* number is not too small, scientific notation otherwise.                 *)
(***************************************************************************)
DecimalStr(d) ==
    LET digits     == NatStr(d.coef)
        nd         == Len(digits)
        leftdigits == d.exp + nd
        dotplace   == IF d.exp <= 0 /\ leftdigits > StrPlainLeft
                      THEN leftdigits ELSE 1
        intpart    == IF dotplace <= 0 THEN <<"0">>
                      ELSE IF dotplace >= nd
                           THEN digits \o Zeros(dotplace - nd)
                           ELSE SubSeq(digits, 1, dotplace)
        fracpart   == IF dotplace <= 0
                      THEN <<".">> \o Zeros(0 - dotplace) \o digits
                      ELSE IF dotplace >= nd THEN << >>
                           ELSE <<".">> \o SubSeq(digits, dotplace + 1, nd)
        e          == leftdigits - dotplace
        exppart    == IF e = 0 THEN << >>
                      ELSE <<"E", IF e < 0 THEN "-" ELSE "+">> \o NatStr(Abs(e))
    IN  (IF d.sign = 1 THEN <<"-">> ELSE << >>) \o intpart \o fracpart \o exppart

(***************************************************************************)
(* Binary floats.  A float is kept as the shortest decimal that denotes    *)
(* it (what repr() prints): the coefficient carries no trailing zero.      *)
(* Decimals of at most FloatDigits significant digits in the normal range  *)
(* denote distinct floats, so the float of such a decimal is its own       *)
(* shortest form.  A positive decimal below the subnormal range becomes    *)
(* 0.0.  No amount of the model lies in the subnormal range, above the     *)
(* float range or carries more digits, where the float would be rounded.   *)
(***************************************************************************)
FloatDigits == 15

FloatMaxExp == 307

FloatValue(sg, c, e) ==
    LET n == StripZeros(c, e) IN [sign |-> sg, coef |-> n[1], exp |-> n[2]]

FloatZero == [sign |-> 0, coef |-> 0, exp |-> 0]

\* float(d), that is Decimal.__float__
DecToFloat(d) ==
    CASE d.coef = 0 -> FloatZero
      [] d.coef # 0 /\ Adjusted(d) <= FloatZeroExp -> FloatZero
      [] d.coef # 0 /\ Adjusted(d) >= FloatNormalExp /\ Adjusted(d) <= FloatMaxExp
            /\ NumDigits(d.coef) <= FloatDigits -> FloatValue(d.sign, d.coef, d.exp)

\* repr(f), also str(f) and the number json.dump writes
FloatRepr(f) ==
    LET digits == NatStr(f.coef)
        nd     == Len(digits)
        decpt  == f.exp + nd
        sgn    == IF f.sign = 1 THEN <<"-">> ELSE << >>
        ex     == decpt - 1
        exdig  == IF Abs(ex) < 10 THEN <<"0">> \o NatStr(Abs(ex)) ELSE NatStr(Abs(ex))
    IN  IF f.coef = 0 THEN sgn \o <<"0", ".", "0">>
        ELSE IF -4 < decpt /\ decpt <= 16
        THEN IF decpt <= 0
             THEN sgn \o <<"0", ".">> \o Zeros(0 - decpt) \o digits
             ELSE IF decpt >= nd
                  THEN sgn \o digits \o Zeros(decpt - nd) \o <<".", "0">>
                  ELSE sgn \o SubSeq(digits, 1, decpt) \o <<".">>
                           \o SubSeq(digits, decpt + 1, nd)
        ELSE sgn \o <<digits[1]>>
                 \o (IF nd > 1 THEN <<".">> \o SubSeq(digits, 2, nd) ELSE << >>)
                 \o <<"e", IF ex < 0 THEN "-" ELSE "+">> \o exdig

\* the float json.load reads back from a number it wrote
FloatOfText(s) == DecToFloat(ParseDecimal(s))

(***************************************************************************)
(* Argument values.  An argument is None, a str or a Decimal; `not x` is   *)
(* Python's truth test of it.                                              *)
(***************************************************************************)
NoneArg == [type |-> "NoneType"]

StrArg(s) == [type |-> "str", text |-> s]

DecimalArg(d) == [type |-> "Decimal", dec |-> d]

Falsy(x) ==
    CASE x.type = "NoneType" -> TRUE
      [] x.type = "str"      -> x.text = << >>
      [] x.type = "Decimal"  -> ~DecTruthy(x.dec)

\* Decimal(amount) of add_income / add_expense
DecimalOf(x) ==
    CASE x.type = "str"     -> ParseDecimal(x.text)
      [] x.type = "Decimal" -> x.dec

Args(description, amount, category) ==
    [description |-> description, amount |-> amount, category |-> category]

\* the calls of add_income the model draws: a missing description, amounts
\* that are missing, malformed and zero, an ordinary amount and one below
\* the range of a float
IncomeCalls ==
    { Args("", StrArg(<<"0", ".", "1", "0">>), "Salary"),
      Args("pay", NoneArg, "Salary"),
      Args("pay", StrArg(<<"a", "b", "c">>), "Salary"),
      Args("pay", StrArg(<<"0">>), "Salary"),
      Args("pay", StrArg(<<"0", ".", "1", "0">>), "Salary"),
      Args("pay", StrArg(<<"1", "e", "-", "4", "0", "0">>), "Salary") }

\* the calls of add_expense the model draws: a missing and a blank
\* description, amounts that are empty, malformed and negative, an amount
\* given as a Decimal, a category of the fixed set and one outside it
ExpenseCalls ==
    { Args("", StrArg(<<"0", ".", "1", "0">>), "Food"),
      Args(" ", StrArg(<<"0", ".", "1", "0">>), "Food"),
      Args("rent", StrArg(<< >>), "Food"),
      Args("rent", StrArg(<<"a", "b", "c">>), "Food"),
      Args("rent", StrArg(<<"-", "5">>), "Food"),
      Args("rent", DecimalArg(Dec(0, 10, -2)), "Food"),
      Args("rent", StrArg(<<"0", ".", "1", "0">>), "Pets") }

\* Budget.expense_categories
expense_categories == <<"Food", "Transportation", "Housing", "Entertainment", "Other">>

(***************************************************************************)
(* The calendar: the dates datetime.now() passes through, in order.        *)
(***************************************************************************)
Calendar ==
    << [year |-> 2024, month |-> 12, day |-> 31],
       [year |-> 2025, month |-> 1, day |-> 1] >>

Pad2(n) == IF n < 10 THEN <<"0">> \o NatStr(n) ELSE NatStr(n)

\* strftime("%Y-%m")
StrfYearMonth(t) == NatStr(t.year) \o <<"-">> \o Pad2(t.month)

\* strftime("%Y-%m-%d")
StrfDate(t) == StrfYearMonth(t) \o <<"-">> \o Pad2(t.day)

\* str.startswith
StartsWith(s, prefix) ==
    Len(prefix) <= Len(s) /\ SubSeq(s, 1, Len(prefix)) = prefix

(***************************************************************************)
(* State.                                                                  *)
(*   incomes, expenses  the lists of the Budget object of the process      *)
(*   store              the file budget_data.json                          *)
(*   clock              index in Calendar of the current date              *)
(*   result             how the last call that changed or tried to change  *)
(*                      the ledger ended: "ok" or the exception raised     *)
(* History, read by the properties only:                                   *)
(*   calls              the additions that appended a record, in order     *)
(*   born               for each held record, the date it was added on     *)
(*   storeBorn          the same for the records of the store              *)
(*   restarted          a fresh Budget has been built since the start      *)
(*   healed             the last addition wrote the store while the store  *)
(*                      held fewer records than the lists did              *)
(* Two writers on one store file:                                          *)
(*   wmem    the lists of each Budget instance                             *)
(*   winst   the instance each writer calls                                *)
(*   wpc     where each writer is in its add_income / add_expense call     *)
(*   wsnap   the data each writer built in save_data                       *)
(*   wrec    the records each writer appended                              *)
(*   wret    how the last call of each writer ended                        *)
(*   wlast   the writer that wrote the file last, 0 before any write       *)
(***************************************************************************)
VARIABLES incomes, expenses, store, clock, result,
          calls, born, storeBorn, restarted, healed,
          wmem, winst, wpc, wsnap, wrec, wret, wlast

ledger == <<incomes, expenses, store, clock, result>>

history == <<calls, born, storeBorn, restarted, healed>>

writers == <<wmem, winst, wpc, wsnap, wrec, wret, wlast>>

vars == <<incomes, expenses, store, clock, result,
          calls, born, storeBorn, restarted, healed,
          wmem, winst, wpc, wsnap, wrec, wret, wlast>>

(***************************************************************************)
(* Transaction (lines 11-40).                                              *)
(***************************************************************************)
\* Transaction.__init__ : the amount goes through str() and Decimal(), the
\* date is the date of construction
Transaction(description, amount, category, now) ==
    [ description |-> description,
      amount      |-> ParseDecimal(DecimalStr(amount)),
      category    |-> category,
      date        |-> StrfDate(now) ]

\* Transaction.to_dict followed by json.dump of the item: the amount becomes
\* a float and is written as repr() of that float
to_dict(t) ==
    [ description |-> t.description,
      amount      |-> FloatRepr(DecToFloat(t.amount)),
      category    |-> t.category,
      date        |-> t.date ]

\* json.load of the item followed by Transaction.from_dict: the constructor
\* is called with description, amount and category; data['date'] is not read
from_dict(data, now) ==
    Transaction(data.description,
                ParseDecimal(FloatRepr(FloatOfText(data.amount))),
                data.category, now)

\* [t.to_dict() for t in s]
Dicts(s) == [i \in 1..Len(s) |-> to_dict(s[i])]

(***************************************************************************)
(* The store file.                                                         *)
(***************************************************************************)
Absent == [state |-> "absent", income |-> << >>, expenses |-> << >>]

\* what an interrupted rewrite leaves: the file exists and is no JSON document
Truncated == [state |-> "truncated", income |-> << >>, expenses |-> << >>]

NoRecords == [income |-> << >>, expenses |-> << >>]

\* the document save_data writes (lines 59-62)
Document(inc, exp) ==
    [state |-> "json", income |-> Dicts(inc), expenses |-> Dicts(exp)]

\* the lists load_data builds from a document (lines 55-56)
Loaded(items, now) == [i \in 1..Len(items) |-> from_dict(items[i], now)]

(***************************************************************************)
(* How a call ends: it returns, or it raises an exception of some class    *)
(* with some message.                                                      *)
(***************************************************************************)
Exc(type, msg) == [type |-> type, msg |-> msg]

Ok == Exc("return", "")

\* line 68, line 80
InvalidInput == Exc("ValueError", "Description and amount are required")

\* line 72, line 84
NotPositive == Exc("ValueError", "Amount must be positive")

\* line 76, line 88
InvalidAmount == Exc("ValueError", "Invalid amount")

\* what Decimal(text) raises on a malformed text: an ArithmeticError
InvalidOperation == Exc("decimal.InvalidOperation", "ConversionSyntax")

\* what open() or the write raises when the store cannot be written
StorageError == Exc("OSError", "")

\* what a mapping raises on a key it does not hold
KeyError == Exc("KeyError", "")

NoValue == [none |-> TRUE]

IsNaN(d) == "nan" \in DOMAIN d

\* except (ValueError, TypeError): raise ValueError("Invalid amount")
\* (lines 75-76, 87-88): any other exception leaves the call as it is
TryExceptAny(exc) == InvalidAmount

TryExcept(exc) ==
    IF exc.type \in {"ValueError", "TypeError"} THEN InvalidAmount ELSE exc

(***************************************************************************)
(* add_income / add_expense up to the append (lines 67-73, 79-85): the     *)
(* required-argument test, then inside the try block Decimal(amount), the  *)
(* constructor and the sign test.                                          *)
(***************************************************************************)
Validate(description, amount, category, now) ==
    IF description = "" \/ Falsy(amount) THEN InvalidInput
    ELSE IF IsNaN(DecimalOf(amount)) THEN TryExcept(InvalidOperation)
    ELSE IF DecLeZero(Transaction(description, DecimalOf(amount), category, now).amount)
         THEN TryExcept(NotPositive)
    ELSE Ok

\* the history entry of an addition that appended a record
Call(kind, amount) == [kind |-> kind, amount |-> DecimalOf(amount)]

\* Budget.save_data (lines 58-64) when the write succeeds
SaveIncomeOnly(inc, exp) == Document(inc, << >>)

save_data(inc, exp) == Document(inc, exp)

\* the store holds fewer records than the lists, or no document at all
Behind(file, inc, exp) ==
    \/ file.state = "truncated"
    \/ Len(file.income) < Len(inc)
    \/ Len(file.expenses) < Len(exp)

(***************************************************************************)
(* Budget.add_income (lines 66-76).  The write of save_data succeeds, or   *)
(* fails with an OSError: open() failed and the file is as it was, or the  *)
(* write failed after open() had truncated the file.                       *)
(***************************************************************************)
add_income(description, amount, category) ==
    LET now == Calendar[clock]
        how == Validate(description, amount, category, now)
    IN  \/ /\ how # Ok
           /\ result' = how
           /\ UNCHANGED <<incomes, expenses, store, clock>>
           /\ UNCHANGED history
           /\ UNCHANGED writers
        \/ /\ how = Ok
           /\ Len(calls) < MaxRecords
           /\ incomes' = Append(incomes,
                  Transaction(description, DecimalOf(amount), category, now))
           /\ born' = [born EXCEPT !.income = Append(@, now)]
           /\ calls' = Append(calls, Call("income", amount))
           /\ \/ /\ store' = save_data(incomes', expenses)
                 /\ storeBorn' = born'
                 /\ healed' = Behind(store, incomes, expenses)
                 /\ result' = Ok
              \/ /\ store' \in {store, Truncated}
                 /\ storeBorn' = IF store' = store THEN storeBorn ELSE NoRecords
                 /\ healed' = FALSE
                 /\ result' = TryExcept(StorageError)
           /\ UNCHANGED <<expenses, clock, restarted>>
           /\ UNCHANGED writers

(***************************************************************************)
(* Budget.add_expense (lines 78-88).                                       *)
(***************************************************************************)
add_expense(description, amount, category) ==
    LET now == Calendar[clock]
        how == Validate(description, amount, category, now)
    IN  \/ /\ how # Ok
           /\ result' = how
           /\ UNCHANGED <<incomes, expenses, store, clock>>
           /\ UNCHANGED history
           /\ UNCHANGED writers
        \/ /\ how = Ok
           /\ Len(calls) < MaxRecords
           /\ expenses' = Append(expenses,
                  Transaction(description, DecimalOf(amount), category, now))
           /\ born' = [born EXCEPT !.expenses = Append(@, now)]
           /\ calls' = Append(calls, Call("expense", amount))
           /\ \/ /\ store' = save_data(incomes, expenses')
                 /\ storeBorn' = born'
                 /\ healed' = Behind(store, incomes, expenses)
                 /\ result' = Ok
              \/ /\ store' \in {store, Truncated}
                 /\ storeBorn' = IF store' = store THEN storeBorn ELSE NoRecords
                 /\ healed' = FALSE
                 /\ result' = TryExcept(StorageError)
           /\ UNCHANGED <<incomes, clock, restarted>>
           /\ UNCHANGED writers

(***************************************************************************)
(* The read operations (lines 90-115).  They change nothing: each is the   *)
(* value the call returns in the current state (or the exception it        *)
(* raises), for the properties to read in every reachable state.           *)
(***************************************************************************)
RECURSIVE SumFrom(_, _, _)
\* sum() of the amounts of s[i..], continuing from acc
SumFrom(s, i, acc) ==
    IF i > Len(s) THEN acc ELSE SumFrom(s, i + 1, DecAdd(acc, s[i].amount))

SumSkippingFirst(s) == SumFrom(s, 2, DecZero)

\* sum(t.amount for t in s): starts from the integer 0
SumAmounts(s) == SumFrom(s, 1, DecZero)

TotalIncome(inc) == SumAmounts(inc)

TotalExpenses(exp) == SumAmounts(exp)

Balance(inc, exp) == DecSub(TotalIncome(inc), TotalExpenses(exp))

RECURSIVE CategoryLoop(_, _, _)
\* the loop of lines 101-102 from expense i on: the totals, or KeyError at
\* the first expense whose category is no key of the mapping
CategoryLoop(exp, i, totals) ==
    IF i > Len(exp) THEN [outcome |-> Ok, value |-> totals]
    ELSE IF exp[i].category \notin DOMAIN totals
         THEN [outcome |-> KeyError, value |-> NoValue]
    ELSE CategoryLoop(exp, i + 1,
             [totals EXCEPT ![exp[i].category] = DecAdd(@, exp[i].amount)])

ExpensesByCategory(exp) ==
    CategoryLoop(exp, 1,
        [c \in {expense_categories[k] : k \in 1..Len(expense_categories)} |-> DecZero])

InMonth(s, month) == SelectSeq(s, LAMBDA t : StartsWith(t.date, month))

MonthlySummary(inc, exp, now) ==
    LET current_month    == StrfYearMonth(now)
        monthly_income   == SumAmounts(InMonth(inc, current_month))
        monthly_expenses == SumAmounts(InMonth(exp, current_month))
    IN  [ income   |-> monthly_income,
          expenses |-> monthly_expenses,
          balance  |-> DecSub(monthly_income, monthly_expenses) ]

get_total_income == TotalIncome(incomes)

get_total_expenses == TotalExpenses(expenses)

get_balance == Balance(incomes, expenses)

get_expenses_by_category == ExpensesByCategory(expenses)

get_monthly_summary == MonthlySummary(incomes, expenses, Calendar[clock])

(***************************************************************************)
(* A fresh process: Budget.__init__ and load_data (lines 43-56).  A store  *)
(* that exists and is no JSON document makes json.load raise while the     *)
(* module is imported (line 117): no Budget comes to exist, so the step    *)
(* is not taken.                                                           *)
(***************************************************************************)
load_data(items, now) == Loaded(items, now)

Restart ==
    /\ store.state # "truncated"
    /\ incomes' = IF store.state = "json"
                  THEN load_data(store.income, Calendar[clock]) ELSE << >>
    /\ expenses' = IF store.state = "json"
                   THEN load_data(store.expenses, Calendar[clock]) ELSE << >>
    /\ born' = storeBorn
    /\ restarted' = TRUE
    /\ healed' = FALSE
    /\ result' = Ok
    /\ UNCHANGED <<store, clock, calls, storeBorn>>
    /\ UNCHANGED writers

(***************************************************************************)
(* The calendar date moves on.                                             *)
(***************************************************************************)
AdvanceDate ==
    /\ clock < Len(Calendar)
    /\ clock' = clock + 1
    /\ UNCHANGED <<incomes, expenses, store, result>>
    /\ UNCHANGED history
    /\ UNCHANGED writers

(***************************************************************************)
(* The single process of the design: one Budget, built on an absent store. *)
(***************************************************************************)
Writers == {1, 2}

InitLedger ==
    /\ incomes = << >>
    /\ expenses = << >>
    /\ store = Absent
    /\ clock = 1
    /\ result = Ok
    /\ calls = << >>
    /\ born = NoRecords
    /\ storeBorn = NoRecords
    /\ restarted = FALSE
    /\ healed = FALSE

InitWriters ==
    /\ wmem = [b \in Writers |-> NoRecords]
    /\ wpc = [w \in Writers |-> "idle"]
    /\ wsnap = [w \in Writers |-> Absent]
    /\ wrec = [w \in Writers |-> << >>]
    /\ wret = [w \in Writers |-> NoValue]
    /\ wlast = 0

Init ==
    /\ InitLedger
    /\ InitWriters
    /\ winst = [w \in Writers |-> 1]

Next ==
    \/ \E x \in IncomeCalls : add_income(x.description, x.amount, x.category)
    \/ \E x \in ExpenseCalls : add_expense(x.description, x.amount, x.category)
    \/ Restart
    \/ AdvanceDate

Spec == Init /\ [][Next]_vars

(***************************************************************************)
(* Two writers on one store file.  Either both are threads calling the     *)
(* one Budget of a process (winst maps both to instance 1), or each calls  *)
(* the Budget of its own process, built before the other wrote.  A call    *)
(* is taken in the steps another writer can come between: the validation   *)
(* and the append (lines 67-73), the building of the data in save_data     *)
(* (lines 59-62), and the rewrite of the file (lines 63-64).               *)
(***************************************************************************)
WriterCalls(w) ==
    LET who == IF w = 1 THEN "first" ELSE "second"
    IN  { [kind |-> "income",  args |-> Args(who, StrArg(<<"0", ".", "1", "0">>), "Salary")],
          [kind |-> "expense", args |-> Args(who, StrArg(<<"0", ".", "1", "0">>), "Food")],
          [kind |-> "expense", args |-> Args(who, StrArg(<<"-", "5">>), "Food")] }

\* lines 67-73 and 79-85 of a writer's call
WriterAppend(w, call) ==
    LET now == Calendar[clock]
        x   == call.args
        how == Validate(x.description, x.amount, x.category, now)
        rec == Transaction(x.description, DecimalOf(x.amount), x.category, now)
        b   == winst[w]
    IN  /\ wpc[w] = "idle"
        /\ \/ /\ how # Ok
              /\ wret' = [wret EXCEPT ![w] = how]
              /\ UNCHANGED <<wmem, wpc, wrec>>
           \/ /\ how = Ok
              /\ Len(wrec[w]) < MaxAdds
              /\ wmem' = IF call.kind = "income"
                         THEN [wmem EXCEPT ![b].income = Append(@, rec)]
                         ELSE [wmem EXCEPT ![b].expenses = Append(@, rec)]
              /\ wrec' = [wrec EXCEPT ![w] = Append(@, to_dict(rec))]
              /\ wpc' = [wpc EXCEPT ![w] = "save_data"]
              /\ wret' = [wret EXCEPT ![w] = NoValue]
        /\ UNCHANGED <<winst, wsnap, wlast>>
        /\ UNCHANGED ledger
        /\ UNCHANGED history

\* lines 59-62: the data is built from the lists as they are now
WriterSnapshot(w) ==
    /\ wpc[w] = "save_data"
    /\ wsnap' = [wsnap EXCEPT
                   ![w] = save_data(wmem[winst[w]].income, wmem[winst[w]].expenses)]
    /\ wpc' = [wpc EXCEPT ![w] = "write"]
    /\ UNCHANGED <<wmem, winst, wrec, wret, wlast>>
    /\ UNCHANGED ledger
    /\ UNCHANGED history

RewrittenInPlace(old, data) ==
    [state |-> "json", income |-> old.income \o data.income,
     expenses |-> old.expenses \o data.expenses]

\* what the file holds once a writer has rewritten it with its data:
\* open(filename, 'w') discards what it held
Rewritten(old, data) == data

\* lines 63-64: the file is rewritten with the data, and the call returns
WriterWrite(w) ==
    /\ wpc[w] = "write"
    /\ store' = Rewritten(store, wsnap[w])
    /\ wlast' = w
    /\ wpc' = [wpc EXCEPT ![w] = "idle"]
    /\ wret' = [wret EXCEPT ![w] = Ok]
    /\ UNCHANGED <<wmem, winst, wsnap, wrec>>
    /\ UNCHANGED <<incomes, expenses, clock, result>>
    /\ UNCHANGED history

InitTwoWriters ==
    /\ InitLedger
    /\ InitWriters
    /\ winst \in {[w \in Writers |-> 1], [w \in Writers |-> w]}

NextWriters ==
    \/ \E w \in Writers : \E call \in WriterCalls(w) : WriterAppend(w, call)
    \/ \E w \in Writers : WriterSnapshot(w)
    \/ \E w \in Writers : WriterWrite(w)

SpecWriters == InitTwoWriters /\ [][NextWriters]_vars

(***************************************************************************)
(* What the properties are stated with.                                    *)
(***************************************************************************)
\* the step is an add_income or add_expense that appended its record: these
\* are the only steps that extend the history of accepted calls
Appended == calls' # calls

\* two records agree on description, amount (as Decimals compare), category
\* and date
SameRecord(a, b) ==
    /\ a.description = b.description
    /\ DecEq(a.amount, b.amount)
    /\ a.category = b.category
    /\ a.date = b.date

SameRecords(s, t) ==
    Len(s) = Len(t) /\ \A i \in 1..Len(s) : SameRecord(s[i], t[i])

\* the file holds, element by element and in order, the serialisation of
\* the two lists
Mirrors(file, inc, exp) ==
    /\ file.state = "json"
    /\ Len(file.income) = Len(inc)
    /\ Len(file.expenses) = Len(exp)
    /\ \A i \in 1..Len(inc) : file.income[i] = to_dict(inc[i])
    /\ \A i \in 1..Len(exp) : file.expenses[i] = to_dict(exp[i])

IsPrefix(s, t) == Len(s) <= Len(t) /\ SubSeq(t, 1, Len(s)) = s

\* the amounts of the additions of one kind that appended a record
Accepted(kind) ==
    LET of == SelectSeq(calls, LAMBDA c : c.kind = kind)
    IN  [i \in 1..Len(of) |-> of[i].amount]

Negated(as) == [i \in 1..Len(as) |-> DecNeg(as[i])]

RECURSIVE TermAt(_, _, _)
\* the exact sum of the amounts as[i..] whose exponent is e, as a coefficient
TermAt(as, i, e) ==
    IF i > Len(as) THEN 0
    ELSE (IF as[i].exp = e THEN Signed(as[i]) ELSE 0) + TermAt(as, i + 1, e)

\* t is the exact sum of the amounts.  The exact sum is kept as one
\* coefficient per exponent; the amounts of the model have exponents that
\* are equal or hundreds of places apart, so the coefficients never overlap
\* and two such sums are equal exactly when they agree at every exponent.
ExactlyEqual(t, as) ==
    \A e \in {as[i].exp : i \in 1..Len(as)} \cup {t.exp} :
        TermAt(as, 1, e) = (IF e = t.exp THEN Signed(t) ELSE 0)

\* the digits from the leading digit of the largest amount down to the
\* last place of the smallest, plus the carry of adding them all, fit the
\* precision of the Decimal context
Fits(as) ==
    \A i, j \in 1..Len(as) :
        Adjusted(as[i]) - as[j].exp + 1 + NumDigits(Len(as)) <= Prec

RECURSIVE BornInFrom(_, _, _, _)
\* the records of s[i..] that were added in the given month
BornInFrom(s, dates, i, month) ==
    IF i > Len(s) THEN << >>
    ELSE (IF StrfYearMonth(dates[i]) = month THEN <<s[i]>> ELSE << >>)
           \o BornInFrom(s, dates, i + 1, month)

Blank(description) == description \in {"", " "}

Missing(amount) ==
    amount.type = "NoneType" \/ (amount.type = "str" /\ amount.text = << >>)

\* a text that is no number, or a number that is zero or negative
NotPositiveAmount(amount) ==
    \/ amount.type = "str" /\ amount.text # << >>
         /\ (IsNaN(ParseDecimal(amount.text)) \/ DecLeZero(ParseDecimal(amount.text)))
    \/ amount.type = "Decimal" /\ DecLeZero(amount.dec)

Rejected(how) == result' = how /\ UNCHANGED <<incomes, expenses, store>>

InStore(item) ==
    \/ \E i \in 1..Len(store.income) : store.income[i] = item
    \/ \E i \in 1..Len(store.expenses) : store.expenses[i] = item

(***************************************************************************)
(* C1.  Round trip: when the store holds the full state of the Budget, a   *)
(* fresh Budget built from it (possibly on a later date) has the same      *)
(* incomes and expenses: same length, same order, and record by record the *)
(* same description, amount, category and date.                            *)
(***************************************************************************)
C1_RoundTrip ==
    [][ (Restart /\ Mirrors(store, incomes, expenses))
          => (SameRecords(incomes', incomes) /\ SameRecords(expenses', expenses)) ]_vars

(***************************************************************************)
(* C2.  add_income and add_expense called with a non-empty description and *)
(* an amount that is non-numeric text, zero or negative fail with          *)
(* ValueError("Invalid amount"), and leave both lists and the store as     *)
(* they were.                                                              *)
(***************************************************************************)
C2_InvalidAmount ==
    [][ /\ \A x \in IncomeCalls :
              (add_income(x.description, x.amount, x.category)
                 /\ x.description # "" /\ NotPositiveAmount(x.amount))
              => Rejected(InvalidAmount)
        /\ \A x \in ExpenseCalls :
              (add_expense(x.description, x.amount, x.category)
                 /\ x.description # "" /\ NotPositiveAmount(x.amount))
              => Rejected(InvalidAmount) ]_vars

(***************************************************************************)
(* C3.  add_income and add_expense fail with ValueError("Description and   *)
(* amount are required") whenever the description is empty or blank or the *)
(* amount is missing or empty, whatever the other arguments; no record is  *)
(* appended and the store is not rewritten.                                *)
(***************************************************************************)
C3_InvalidInput ==
    [][ /\ \A x \in IncomeCalls :
              (add_income(x.description, x.amount, x.category)
                 /\ (Blank(x.description) \/ Missing(x.amount)))
              => Rejected(InvalidInput)
        /\ \A x \in ExpenseCalls :
              (add_expense(x.description, x.amount, x.category)
                 /\ (Blank(x.description) \/ Missing(x.amount)))
              => Rejected(InvalidInput) ]_vars

(***************************************************************************)
(* C4.  In every state, get_expenses_by_category returns a mapping whose   *)
(* keys are the five fixed expense categories, each value the sum of the   *)
(* amounts of the expenses of that category; expenses of any other         *)
(* category are left out and do not make the call fail.                    *)
(***************************************************************************)
C4_ByCategory ==
    LET r == get_expenses_by_category
    IN  /\ r.outcome = Ok
        /\ DOMAIN r.value = {expense_categories[k] : k \in 1..Len(expense_categories)}
        /\ \A c \in DOMAIN r.value :
              DecEq(r.value[c],
                    SumAmounts(SelectSeq(expenses, LAMBDA t : t.category = c)))

(***************************************************************************)
(* C5.  When add_income or add_expense returns, the income and expenses    *)
(* arrays of the store are, element by element and in order, the           *)
(* serialisation of both lists.                                            *)
(***************************************************************************)
C5_StoreMirrorsLists ==
    [][ (Appended /\ result' = Ok) => Mirrors(store', incomes', expenses') ]_vars

\* an addition has returned with both lists non-empty and written
C5_Witness ==
    /\ result = Ok
    /\ ~restarted
    /\ Len(incomes) >= 1
    /\ Len(expenses) >= 1
    /\ Mirrors(store, incomes, expenses)

C7_MonthlySummary ==
    LET month == StrfYearMonth(Calendar[clock])
        r     == get_monthly_summary
    IN  /\ DecEq(r.income, SumAmounts(BornInFrom(incomes, born.income, 1, month)))
        /\ DecEq(r.expenses, SumAmounts(BornInFrom(expenses, born.expenses, 1, month)))
        /\ DecEq(r.balance, DecSub(r.income, r.expenses))

(***************************************************************************)
(* C8.  Every record held in incomes or expenses has amount > 0, in every  *)
(* state reached by additions and by reloads of a store the ledger wrote.  *)
(***************************************************************************)
C8_PositiveAmounts ==
    /\ \A i \in 1..Len(incomes) : DecPositive(incomes[i].amount)
    /\ \A i \in 1..Len(expenses) : DecPositive(expenses[i].amount)

(***************************************************************************)
(* C9.  When the store write of an otherwise valid addition fails, the     *)
(* call raises the storage error (it neither returns nor reports a         *)
(* validation error), the record stays in the list and the store does not  *)
(* hold it; and the next addition that succeeds rewrites the store with    *)
(* every record of the lists, the earlier one and the new one.             *)
(***************************************************************************)
C9_StorageFailure ==
    [][ /\ (Appended /\ ~Mirrors(store', incomes', expenses'))
           => /\ result' = StorageError
              /\ IsPrefix(incomes, incomes') /\ IsPrefix(expenses, expenses')
              /\ Len(incomes') + Len(expenses') = Len(incomes) + Len(expenses) + 1
              /\ Behind(store', incomes', expenses')
        /\ (Appended /\ result = StorageError /\ result' = Ok)
           => /\ Behind(store, incomes, expenses)
              /\ IsPrefix(incomes, incomes') /\ IsPrefix(expenses, expenses')
              /\ Mirrors(store', incomes', expenses') ]_vars

\* an addition has just written the store that the failed one before it
\* had left behind
C9_Witness ==
    /\ healed
    /\ result = Ok
    /\ Len(incomes) + Len(expenses) = 2
    /\ Mirrors(store, incomes, expenses)

(***************************************************************************)
(* C10.  Last writer wins.  Once a writer has rewritten the file, the file *)
(* is the data that writer built in save_data; when the writers call       *)
(* Budgets of their own, the file holds no record the other writer added,  *)
(* although that writer's call returned.                                   *)
(***************************************************************************)
C10_LastWriterWins ==
    wlast # 0 =>
        /\ wpc[wlast] # "write" => store = wsnap[wlast]
        /\ IsPrefix(store.income, Dicts(wmem[winst[wlast]].income))
        /\ IsPrefix(store.expenses, Dicts(wmem[winst[wlast]].expenses))
        /\ \A w \in Writers :
              (winst[w] # winst[wlast])
                 => \A i \in 1..Len(wrec[w]) : ~InStore(wrec[w][i])

\* both calls have returned and the file holds the record of one writer only
C10_Witness ==
    /\ \A w \in Writers : wpc[w] = "idle" /\ wret[w] = Ok /\ Len(wrec[w]) = 1
    /\ \E w \in Writers : ~InStore(wrec[w][1]) /\ InStore(wrec[3 - w][1])
    /\ wlast # 0
    /\ store = wsnap[wlast]

====
